---- MODULE Spec2Model ----
(***************************************************************************)
(* Texture Wrap (magic_uv/op/texture_wrap.py): the Refer and Set operators *)
(* over the persisted properties (ref_face_index, ref_obj), the scene      *)
(* options, and the per-loop UVs of the edited meshes.                     *)
(*                                                                         *)
(* Floating point numbers are modelled as exact rationals <<num, den>>;    *)
(* a Vector is a tuple of rationals.                                       *)
(***************************************************************************)
EXTENDS Integers, Sequences, FiniteSets, TLC

VARIABLES
    ref_face_index,     \* props.ref_face_index
    ref_obj,            \* props.ref_obj
    uv,                 \* uv[o][f][v]: the UV of the loop of face f at vertex v
    pc,                 \* "idle", or "loop" inside Set.execute's for loop
    obj,                \* the object edited when the last operator was invoked
    selseq,             \* scene.muv_texture_wrap_selseq as the last Set read it
    set_and_refer,      \* scene.muv_texture_wrap_set_and_refer, likewise
    sel_faces,          \* Set.execute: sel_faces (face indices, in order)
    idx,                \* Set.execute: position of the for loop in sel_faces
    l_ref,              \* Set.execute: the local ref_face_index
    l_tgt,              \* Set.execute: tgt_face_index
    uv0,                \* history: uv when the running Set was invoked
    log,                \* history: the projection steps the running Set completed
    lastop,             \* the operator invoked last: "none", "refer", "set"
    result,             \* what it returned ("RUNNING" until it does)
    report,             \* the message it reported
    nsteps,             \* history: the projection steps it completed
    nwrites,            \* the face writes made so far
    gA, gB, gO,         \* geometry: a shared edge and an off-edge vertex
    gOut                \* geometry: the reference info computed for them

progVars == <<ref_face_index, ref_obj, uv, pc, obj, selseq, set_and_refer,
              sel_faces, idx, l_ref, l_tgt, uv0, log, lastop, result, report, nsteps, nwrites>>

geomVars == <<gA, gB, gO, gOut>>

vars == <<progVars, geomVars>>

\* ---------------------------------------------------------------- bounds
MaxHist == 2        \* longest selection history drawn
MaxWrites == 2      \* face writes after which no further Set is started
MaxCoord == 2       \* geometry: x and y are drawn from 0..MaxCoord
MaxDepth == 1       \* geometry: z is drawn from 0..MaxDepth

\* ---------------------------------------------------------------- numbers
Abs(n) == IF n < 0 THEN -n ELSE n

RECURSIVE GCD(_, _)
GCD(a, b) == IF b = 0 THEN a ELSE GCD(b, a % b)

Rat(n, d) ==
    LET s == IF d < 0 THEN -1 ELSE 1
        g == GCD(Abs(n), Abs(d))
    IN  <<(s * n) \div g, (s * d) \div g>>

RInt(n) == <<n, 1>>
RAdd(a, b) == Rat(a[1] * b[2] + b[1] * a[2], a[2] * b[2])
RSub(a, b) == Rat(a[1] * b[2] - b[1] * a[2], a[2] * b[2])
RMul(a, b) == Rat(a[1] * b[1], a[2] * b[2])
RDiv(a, b) == Rat(a[1] * b[2], a[2] * b[1])
RIsZero(a) == a[1] = 0

VAdd(u, v) == [i \in DOMAIN u |-> RAdd(u[i], v[i])]
VSub(u, v) == [i \in DOMAIN u |-> RSub(u[i], v[i])]
VScale(u, r) == [i \in DOMAIN u |-> RMul(u[i], r)]

RECURSIVE DotUpTo(_, _, _)
DotUpTo(u, v, n) ==
    IF n = 0 THEN RInt(0) ELSE RAdd(DotUpTo(u, v, n - 1), RMul(u[n], v[n]))

Dot(u, v) == DotUpTo(u, v, Len(u))

\* Vector.length == 0
LengthIsZero(u) == RIsZero(Dot(u, u))

ISqrt(n) == CHOOSE r \in 0..n : r * r = n

\* u.length / v.length, for v.length # 0
LengthRatio(u, v) ==
    LET q == RDiv(Dot(u, u), Dot(v, v)) IN <<ISqrt(q[1]), ISqrt(q[2])>>

\* math.copysign(1, x)
CopySign1(x) == IF x[1] < 0 THEN RInt(-1) ELSE RInt(1)

\* common.diff_point_to_segment(a, b, p): <<xp, x>>, x the foot of p on the
\* line ab (a itself when a = b: the zero vector normalizes to the zero vector)
FootOnLine(a, ab, ap) ==
    IF RIsZero(Dot(ab, ab)) THEN a
    ELSE VAdd(a, VScale(ab, RDiv(Dot(ab, ap), Dot(ab, ab))))

XpAndX(p, x) == <<VSub(p, x), x>>

DiffPointToSegment(a, b, p) == XpAndX(p, FootOnLine(a, VSub(b, a), VSub(p, a)))

\* ---------------------------------------------------------------- meshes
None == "None"

\* The objects that can be edited.  X and Y carry a UV layer, Z carries none.
Objects == {"X", "Y", "Z"}

HasUV(o) == o \in {"X", "Y"}

\* vert.co of every vertex
Co ==
    [X |-> << <<0, 0, 0>>, <<1, 0, 0>>, <<2, 0, 0>>, <<0, 1, 0>>, <<1, 1, 0>>,
              <<2, 1, 0>>, <<1, 2, 0>>, <<2, 2, 0>>, <<3, 1, 0>> >>,
     Y |-> << <<0, 0, 0>>, <<1, 0, 0>>, <<0, 1, 0>>, <<1, 1, 0>> >>,
     Z |-> << <<0, 0, 0>>, <<1, 0, 0>>, <<0, 1, 0>> >>]

\* face.loops of every face, as the vertices of the loops in order; face i of
\* the mesh (face.index = i) is entry i + 1.
\*   X: 0 and 1 are unit squares sharing an edge, 2 a triangle on top of 0,
\*      3 a triangle covering half of 0 (three vertices in common with 0),
\*      4 a quad right of 1 whose second and third vertex lie on the line of
\*      the edge it shares with 1.
FaceVerts ==
    [X |-> << <<1, 2, 5, 4>>, <<2, 3, 6, 5>>, <<4, 5, 7>>, <<1, 2, 5>>,
              <<3, 6, 8, 9>> >>,
     Y |-> << <<1, 2, 3>>, <<2, 4, 3>> >>,
     Z |-> << <<1, 2, 3>> >>]

NumFaces(o) == Len(FaceVerts[o])
FaceIdx(o) == 0..(NumFaces(o) - 1)

\* bm.faces[i]: the index of the face a (possibly negative) subscript yields
FaceAt(o, i) == IF i < 0 THEN i + NumFaces(o) ELSE i

Loops(o, f) == FaceVerts[o][f + 1]

InSeq(x, s) == \E i \in DOMAIN s : s[i] = x

VertCo(o, v) == [i \in 1..3 |-> RInt(Co[o][v][i])]

\* the UVs the faces start with: every face is mapped to the corners of the
\* same sheared patch of the texture, loop by loop
StartUV == << <<RInt(0), RInt(0)>>, <<RInt(2), RInt(0)>>,
              <<RInt(3), RInt(1)>>, <<RInt(1), RInt(1)>> >>

UVInit ==
    [o \in {p \in Objects : HasUV(p)} |->
        [f \in FaceIdx(o) |->
            [v \in {Loops(o, f)[i] : i \in DOMAIN Loops(o, f)} |->
                StartUV[CHOOSE i \in DOMAIN Loops(o, f) : Loops(o, f)[i] = v]]]]

\* ---------------------------------------------------------------- messages
MsgNoUV == "Object must have more than one UV map"
MsgSelOne == "Must select only one face"
MsgSelMore == "Must select more than one face"
MsgDiffFace == "Must select different face"
MsgSameObj == "Object must be same"
MsgShared == "2 vertices must be shared among faces"
MsgUnshared == "More than 1 vertex must be unshared"

\* ---------------------------------------------------------------- projection
\* common_verts: the vertices of the reference face's loops that the target
\* face has too, in the order of the reference face's loops
CommonVerts(o, rf, tf) ==
    SelectSeq(Loops(o, rf), LAMBDA v : InSeq(v, Loops(o, tf)))

\* ref_other_verts / tgt_other_verts: the vertices of face f not in common
OtherVerts(o, f, cvs) == SelectSeq(Loops(o, f), LAMBDA v : ~InSeq(v, cvs))

\* variant: faces with three or more shared vertices are accepted too
SharedCountOK_AtLeast(n) == n >= 2

\* len(common_verts) != 2 rejects
SharedCountOK(n) == n = 2

\* variant: the swap is taken only when both deltas are zero
SwapVerts_Both(hdiff, vdiff) == LengthIsZero(hdiff) /\ LengthIsZero(vdiff)

\* "swap verts on shared edge if zero delta"
SwapVerts(hdiff, vdiff) == LengthIsZero(hdiff) \/ LengthIsZero(vdiff)

\* hdiff, x = common.diff_point_to_segment(a, b, p); vdiff = x - a
HDiff(a, b, p) == DiffPointToSegment(a, b, p)[1]
VDiff(a, b, p) == VSub(DiffPointToSegment(a, b, p)[2], a)

\* cv0, cv1, cuv0, cuv1, ref_hdiff, ref_vdiff as they stand after the swap
RefInfo(cv0, cv1, cuv0, cuv1, ov0) ==
    IF SwapVerts(HDiff(cv0, cv1, ov0), VDiff(cv0, cv1, ov0))
    THEN [cv0 |-> cv1, cv1 |-> cv0, cuv0 |-> cuv1, cuv1 |-> cuv0,
          ref_hdiff |-> HDiff(cv1, cv0, ov0),
          ref_vdiff |-> VDiff(cv1, cv0, ov0), swapped |-> TRUE]
    ELSE [cv0 |-> cv0, cv1 |-> cv1, cuv0 |-> cuv0, cuv1 |-> cuv1,
          ref_hdiff |-> HDiff(cv0, cv1, ov0),
          ref_vdiff |-> VDiff(cv0, cv1, ov0), swapped |-> FALSE]

\* the divisions of fact_v and fact_h raise ZeroDivisionError
DivisionByZero(info) ==
    LengthIsZero(info.ref_vdiff) \/ LengthIsZero(info.ref_hdiff)

\* fact_v: "parallel: depends on where the verts get projected"
FactV(tgt_vdiff, ref_vdiff, edge) ==
    RMul(RMul(LengthRatio(tgt_vdiff, ref_vdiff),
              CopySign1(Dot(tgt_vdiff, edge))),
         CopySign1(Dot(ref_vdiff, edge)))

\* fact_h: "perpendicular: always on the opposite side"
FactH(tgt_hdiff, ref_hdiff) ==
    RMul(RInt(-1), LengthRatio(tgt_hdiff, ref_hdiff))

\* info["target_uv"] of the target face's unshared vertex at ov:
\* cuv0 + duv_h + duv_v
TargetUV(info, ref_uv_hdiff, ref_uv_vdiff, ov) ==
    VAdd(VAdd(info.cuv0,
              VScale(ref_uv_hdiff,
                     FactH(HDiff(info.cv0, info.cv1, ov), info.ref_hdiff))),
         VScale(ref_uv_vdiff,
                FactV(VDiff(info.cv0, info.cv1, ov), info.ref_vdiff,
                      VSub(info.cv1, info.cv0))))

\* variant: the UV of another loop of the reference face is copied
CommonUV_OtherLoop(uvo, rf, v) ==
    uvo[rf][CHOOSE w \in DOMAIN uvo[rf] : w # v]

\* "apply to common UVs": the value the target loop at shared vertex v gets
CommonUV(uvo, rf, v) == uvo[rf][v]

\* an early return of the loop body: nothing is written
Rejected(status, msg, uvf) == [status |-> status, msg |-> msg, uvf |-> uvf]

\* "get target info" to "apply to other UVs"
ProjectInfo(o, uvo, rf, tf, cvs, info, ouv0) ==
    IF DivisionByZero(info)
    THEN Rejected("EXCEPTION", "ZeroDivisionError", uvo[tf])
    ELSE [status |-> "OK", msg |-> "",
          uvf |-> [v \in DOMAIN uvo[tf] |->
                     IF InSeq(v, cvs)
                     THEN CommonUV(uvo, rf, v)
                     ELSE TargetUV(info,
                                   HDiff(info.cuv0, info.cuv1, ouv0),
                                   VDiff(info.cuv0, info.cuv1, ouv0),
                                   VertCo(o, v))]]

\* the loop body from the check of len(common_verts) on
ProjectCommon(o, uvo, rf, tf, cvs) ==
    IF ~SharedCountOK(Len(cvs))
    THEN Rejected("CANCELLED", MsgShared, uvo[tf])
    ELSE IF OtherVerts(o, rf, cvs) = <<>>
    THEN Rejected("CANCELLED", MsgUnshared, uvo[tf])
    ELSE IF OtherVerts(o, tf, cvs) = <<>>
    THEN Rejected("CANCELLED", MsgUnshared, uvo[tf])
    ELSE ProjectInfo(o, uvo, rf, tf, cvs,
                     RefInfo(VertCo(o, cvs[1]), VertCo(o, cvs[2]),
                             uvo[rf][cvs[1]], uvo[rf][cvs[2]],
                             VertCo(o, OtherVerts(o, rf, cvs)[1])),
                     uvo[rf][OtherVerts(o, rf, cvs)[1]])

\* One pass of the for loop's body from "get common vertices info" on, for the
\* faces rf and tf of object o whose UVs are uvo: what it reports and the UVs
\* the target face has after it.
Project(o, uvo, rf, tf) ==
    ProjectCommon(o, uvo, rf, tf, CommonVerts(o, rf, tf))

\* ---------------------------------------------------------------- selection
RECURSIVE InIndexOrder(_)
InIndexOrder(S) ==
    IF S = {} THEN <<>>
    ELSE LET m == CHOOSE x \in S : \A y \in S : x <= y
         IN  <<m>> \o InIndexOrder(S \ {m})

\* [f for f in bm.faces if f.select], as face indices
SelFacesAll(selected) == InIndexOrder(selected)

\* the elements bm.select_history can hold: faces, and elements of other types
HistElems(o) ==
    {[kind |-> "face", index |-> f] : f \in FaceIdx(o)}
        \cup {[kind |-> "edge", index |-> 0]}

\* the selection histories drawn: no element is recorded twice
HistSeqs(o) ==
    {h \in UNION {[1..n -> HistElems(o)] : n \in 0..MaxHist} :
        \A i, j \in DOMAIN h : i # j => h[i] # h[j]}

\* the faces of bm.select_history that are selected, in its order
SelFacesHist(hist, selected) ==
    LET fs == SelectSeq(hist, LAMBDA h : h.kind = "face" /\ h.index \in selected)
    IN  [i \in DOMAIN fs |-> fs[i].index]

\* the lists sel_faces can be, by object: without and with "Selection Sequence"
AllSelections ==
    [o \in Objects |-> {SelFacesAll(sel) : sel \in SUBSET FaceIdx(o)}]

SeqSelections ==
    [o \in Objects |->
        {SelFacesHist(h, sel) : h \in HistSeqs(o), sel \in SUBSET FaceIdx(o)}]

\* ---------------------------------------------------------------- operators
\* what an operator read of a scene option: "unread" when it returned before
\* the line that reads it
OptionRead(b) == IF b THEN "on" ELSE "off"

ProgInit ==
    /\ ref_face_index = -1
    /\ ref_obj = None
    /\ uv = UVInit
    /\ pc = "idle"
    /\ obj = None
    /\ selseq = "unread"
    /\ set_and_refer = "unread"
    /\ sel_faces = <<>>
    /\ idx = 0
    /\ l_ref = -1
    /\ l_tgt = -1
    /\ uv0 = <<>>
    /\ log = <<>>
    /\ lastop = "none"
    /\ result = "none"
    /\ report = ""
    /\ nsteps = 0
    /\ nwrites = 0

Init ==
    /\ ProgInit
    /\ gA = <<0, 0, 0>>
    /\ gB = <<0, 0, 0>>
    /\ gO = <<0, 0, 0>>
    /\ gOut = <<>>

\* MUV_OT_TextureWrap_Refer.execute, invoked while object o is edited
Refer ==
    /\ pc = "idle"
    /\ \E o \in Objects : \E sf \in AllSelections[o] :
        /\ obj' = o
        /\ IF ~HasUV(o)
           THEN /\ result' = "CANCELLED"
                /\ report' = MsgNoUV
                /\ UNCHANGED <<ref_face_index, ref_obj>>
           ELSE IF Len(sf) # 1
           THEN /\ result' = "CANCELLED"
                /\ report' = MsgSelOne
                /\ UNCHANGED <<ref_face_index, ref_obj>>
           ELSE /\ ref_face_index' = sf[1]
                /\ ref_obj' = o
                /\ result' = "FINISHED"
                /\ report' = ""
    /\ lastop' = "refer"
    /\ selseq' = "unread"
    /\ set_and_refer' = "unread"
    /\ nsteps' = 0
    /\ UNCHANGED <<uv, pc, sel_faces, idx, l_ref, l_tgt, uv0, log, nwrites,
                   geomVars>>

\* MUV_OT_TextureWrap_Set.poll
SetPoll(console) == console \/ ref_obj # None

\* Set.execute returns: its locals are gone
Return(res, msg) ==
    /\ pc' = "idle"
    /\ result' = res
    /\ report' = msg
    /\ nsteps' = Len(log)
    /\ sel_faces' = <<>>
    /\ idx' = 0
    /\ l_ref' = -1
    /\ l_tgt' = -1
    /\ uv0' = <<>>
    /\ log' = <<>>

\* MUV_OT_TextureWrap_Set.execute, up to the for loop, invoked while object o
\* is edited and scene.muv_texture_wrap_selseq is seq
SetBegin ==
    /\ pc = "idle"
    /\ nwrites < MaxWrites
    /\ \E console \in BOOLEAN : SetPoll(console)
    /\ \E o \in Objects, seq \in BOOLEAN :
        \E sf \in (IF seq THEN SeqSelections[o] ELSE AllSelections[o]) :
            LET msg == IF ~HasUV(o) THEN MsgNoUV
                       ELSE IF seq
                       THEN (IF sf = <<>> THEN MsgSelMore ELSE "")
                       ELSE (IF Len(sf) # 1 THEN MsgSelOne ELSE "")
            IN  /\ obj' = o
                /\ selseq' = IF HasUV(o) THEN OptionRead(seq) ELSE "unread"
                /\ IF msg # ""
                   THEN Return("CANCELLED", msg)
                   ELSE /\ pc' = "loop"
                        /\ sel_faces' = sf
                        /\ idx' = 1
                        /\ l_ref' = ref_face_index
                        /\ uv0' = uv
                        /\ result' = "RUNNING"
                        /\ report' = ""
                        /\ nsteps' = 0
                        /\ UNCHANGED <<l_tgt, log>>
    /\ lastop' = "set"
    /\ set_and_refer' = "unread"
    /\ UNCHANGED <<ref_face_index, ref_obj, uv, nwrites, geomVars>>

\* ref_face_index == tgt_face_index
SameFace(ref, tgt) == ref = tgt

\* variant: the objects are not compared
ObjMismatch_Never(ro, o) == FALSE

\* variant: an unset props.ref_obj matches every object
ObjMismatch_Unset(ro, o) == ro # None /\ ro # o

\* props.ref_obj != obj
ObjMismatch(ro, o) == ro # o

\* bm.faces[i] raises IndexError
IndexError(o, i) == i < -NumFaces(o) \/ i >= NumFaces(o)

\* variant: the loops of the reference face are written
WrittenFace_Ref(rf, tf) == rf

\* the face whose loops "apply to common UVs" and "apply to other UVs" write
WrittenFace(rf, tf) == tf

\* variant: the local reference is not advanced
NextRef_Stuck(ref, tgt) == ref

\* ref_face_index = tgt_face_index, at the end of the loop body
NextRef(ref, tgt) == tgt

\* One pass of the for loop's body
SetStep ==
    /\ pc = "loop"
    /\ idx <= Len(sel_faces)
    /\ LET tgt == sel_faces[idx]
       IN  IF SameFace(l_ref, tgt)
           THEN /\ Return("CANCELLED", MsgDiffFace)
                /\ UNCHANGED <<uv, nwrites>>
           ELSE IF ObjMismatch(ref_obj, obj)
           THEN /\ Return("CANCELLED", MsgSameObj)
                /\ UNCHANGED <<uv, nwrites>>
           ELSE IF IndexError(obj, l_ref) \/ IndexError(obj, tgt)
           THEN /\ Return("EXCEPTION", "IndexError")
                /\ UNCHANGED <<uv, nwrites>>
           ELSE
           LET rf == FaceAt(obj, l_ref)
               tf == FaceAt(obj, tgt)
               p  == Project(obj, uv[obj], rf, tf)
           IN  IF p.status # "OK"
               THEN /\ Return(p.status, p.msg)
                    /\ UNCHANGED <<uv, nwrites>>
               ELSE /\ uv' = [uv EXCEPT ![obj][WrittenFace(rf, tf)] = p.uvf]
                    /\ l_tgt' = tgt
                    /\ l_ref' = NextRef(l_ref, tgt)
                    /\ idx' = idx + 1
                    /\ log' = Append(log, [ref |-> rf, tgt |-> tf,
                                           uvf |-> p.uvf])
                    /\ nwrites' = nwrites + 1
                    /\ UNCHANGED <<pc, sel_faces, uv0, result, report, nsteps>>
    /\ UNCHANGED <<ref_face_index, ref_obj, obj, selseq, set_and_refer, lastop,
                   geomVars>>

\* variant: the option is ignored, nothing is persisted
PersistRef_Never(sar, cur, tgt) == cur

\* variant: the option is ignored, the last target is always persisted
PersistRef_Always(sar, cur, tgt) == tgt

\* if sc.muv_texture_wrap_set_and_refer: props.ref_face_index = tgt_face_index
PersistRef(sar, cur, tgt) == IF sar THEN tgt ELSE cur

\* Set.execute after the for loop, scene.muv_texture_wrap_set_and_refer being
\* sar
SetEnd ==
    /\ pc = "loop"
    /\ idx > Len(sel_faces)
    /\ \E sar \in BOOLEAN :
        /\ set_and_refer' = OptionRead(sar)
        /\ ref_face_index' = PersistRef(sar, ref_face_index, l_tgt)
    /\ Return("FINISHED", "")
    /\ UNCHANGED <<ref_obj, uv, obj, selseq, lastop, nwrites, geomVars>>

Next ==
    \/ Refer
    \/ SetBegin
    \/ SetStep
    \/ SetEnd

Spec == Init /\ [][Next]_vars

\* ---------------------------------------------------------------- geometry
\* The reference info of every shared edge (gA, gB) and off-edge vertex gO with
\* coordinates in the box.
Coords == {<<x, y, z>> : x \in 0..MaxCoord, y \in 0..MaxCoord, z \in 0..MaxDepth}

IntVec(p) == [i \in 1..3 |-> RInt(p[i])]

GeomUVA == <<RInt(0), RInt(0)>>
GeomUVB == <<RInt(1), RInt(0)>>

GeomInit ==
    /\ ProgInit
    /\ gA \in Coords
    /\ gB \in Coords
    /\ gO \in Coords
    /\ gOut = <<>>

GeomRefInfo ==
    /\ gOut = <<>>
    /\ gOut' = RefInfo(IntVec(gA), IntVec(gB), GeomUVA, GeomUVB, IntVec(gO))
    /\ UNCHANGED <<progVars, gA, gB, gO>>

GeomNext == GeomRefInfo

GeomSpec == GeomInit /\ [][GeomNext]_vars

\* ---------------------------------------------------------------- claims
\* the vertices two faces of an object have in common
FaceVertSet(o, f) == {Loops(o, f)[i] : i \in DOMAIN Loops(o, f)}
SharedVerts(o, f, g) == FaceVertSet(o, f) \cap FaceVertSet(o, g)

\* the UVs when the Set now returning was invoked
UVAtInvocation == IF pc = "loop" THEN uv0 ELSE uv

\* the messages of the validation errors
ValidationMsgs == {MsgNoUV, MsgSelOne, MsgSelMore, MsgSameObj, MsgDiffFace}

\* C1, as stated: with set-and-refer enabled, every Set that completed at least
\* one projection step returns with props.ref_face_index equal to the last
\* completed target, whether it finished or stopped on a later element.
C1_AsStated ==
    [][(pc = "loop" /\ pc' = "idle" /\ set_and_refer' # "off" /\ Len(log) >= 1)
        => ref_face_index' = log[Len(log)].tgt]_vars

\* C1, amended: a Set that runs through its whole sequence with set-and-refer
\* enabled returns with props.ref_face_index equal to the last target; every
\* other step of Set, an early return on an error included, leaves
\* props.ref_face_index as it was when Set was invoked.
C1_PersistOnFinish ==
    [][lastop' = "set" =>
        IF pc = "loop" /\ result' = "FINISHED"
        THEN set_and_refer' = "on" =>
                /\ Len(log) = Len(sel_faces)
                /\ ref_face_index' = log[Len(log)].tgt
        ELSE ref_face_index' = ref_face_index]_vars

C1_Witness ==
    /\ lastop = "set"
    /\ result = "FINISHED"
    /\ set_and_refer = "on"
    /\ nsteps = 2
    /\ ref_obj = obj

\* C2, as stated: no step of Set changes props.ref_face_index or props.ref_obj.
C2_AsStated ==
    [][lastop' = "set" =>
        (ref_face_index' = ref_face_index /\ ref_obj' = ref_obj)]_vars

\* C2, amended: Set never changes props.ref_obj, and changes
\* props.ref_face_index only when it finishes with set-and-refer enabled, to
\* the last face of its sequence.
C2_SetWritesOnlyOnFinish ==
    [][lastop' = "set" =>
        /\ ref_obj' = ref_obj
        /\ ref_face_index' =
             IF pc = "loop" /\ result' = "FINISHED" /\ set_and_refer' = "on"
             THEN sel_faces[Len(sel_faces)]
             ELSE ref_face_index]_vars

C2_Witness ==
    /\ lastop = "set"
    /\ result = "FINISHED"
    /\ set_and_refer = "on"
    /\ selseq = "off"
    /\ nsteps = 1
    /\ ref_obj = obj

\* C3, as stated: a Set invoked on an object other than the one Refer captured
\* reports "Object must be same" and changes no UV.
C3_AsStated ==
    [][(lastop' = "set" /\ pc' = "idle" /\ ref_obj # None /\ obj' # ref_obj)
        => /\ result' = "CANCELLED"
           /\ report' = MsgSameObj
           /\ uv' = UVAtInvocation]_vars

\* C3, amended: a Set invoked on an object other than the one Refer captured
\* is cancelled with a validation error and changes no UV; the error is
\* "Object must be same" exactly when the object has a UV layer, the selection
\* count fits the mode and the first target's index differs from
\* props.ref_face_index (with the same index it is "Must select different
\* face").
C3_CrossObjectCancelled ==
    [][(lastop' = "set" /\ pc' = "idle" /\ ref_obj # None /\ obj' # ref_obj)
        => /\ result' = "CANCELLED"
           /\ uv' = UVAtInvocation
           /\ report' \in ValidationMsgs
           /\ report' = MsgSameObj
                <=> (pc = "loop" /\ sel_faces[1] # ref_face_index)
           /\ report' = MsgDiffFace
                <=> (pc = "loop" /\ sel_faces[1] = ref_face_index)
           /\ pc = "loop" => idx = 1]_vars

C3_Witness ==
    /\ lastop = "set"
    /\ ref_obj = "X"
    /\ obj = "Y"
    /\ result = "CANCELLED"
    /\ report = MsgSameObj

\* C4: a Set that returns with a validation error leaves every UV as it was
\* when Set was invoked.
C4_ValidationErrorKeepsUV ==
    [][(lastop' = "set" /\ pc' = "idle" /\ report' \in ValidationMsgs)
        => (result' = "CANCELLED" /\ uv' = UVAtInvocation)]_vars

C4_Witness ==
    /\ lastop = "set"
    /\ selseq = "on"
    /\ result = "CANCELLED"
    /\ report = MsgDiffFace
    /\ ref_obj = obj

\* C5: a projection step for two faces that do not share exactly 2 vertices is
\* rejected with "2 vertices must be shared among faces" and writes nothing; a
\* step that writes or completes has faces sharing exactly 2 vertices, and
\* writes the target face only.
C5_SharedCountRejected ==
    [][(pc = "loop" /\ idx <= Len(sel_faces)) =>
        /\ (/\ ref_obj = obj
            /\ l_ref # sel_faces[idx]
            /\ Cardinality(SharedVerts(obj, l_ref, sel_faces[idx])) # 2)
              => /\ pc' = "idle"
                 /\ result' = "CANCELLED"
                 /\ report' = MsgShared
                 /\ uv' = uv
        /\ (uv' # uv \/ pc' = "loop")
              => /\ ref_obj = obj
                 /\ l_ref # sel_faces[idx]
                 /\ Cardinality(SharedVerts(obj, l_ref, sel_faces[idx])) = 2
                 /\ \A o \in DOMAIN uv : \A f \in DOMAIN uv[o] :
                        (o # obj \/ f # sel_faces[idx])
                            => uv'[o][f] = uv[o][f]]_vars

C5_Witness ==
    /\ lastop = "set"
    /\ result = "CANCELLED"
    /\ report = MsgShared
    /\ nsteps = 0

\* C6: after a projection step that succeeded, the target face's UV at each of
\* the two shared vertices is the reference face's UV at that vertex.
C6_SharedUVCopied ==
    [][(pc = "loop" /\ pc' = "loop" /\ idx' = idx + 1) =>
        /\ Cardinality(SharedVerts(obj, l_ref, sel_faces[idx])) = 2
        /\ \A v \in SharedVerts(obj, l_ref, sel_faces[idx]) :
            /\ uv'[obj][sel_faces[idx]][v] = uv[obj][l_ref][v]
            /\ uv'[obj][l_ref][v] = uv[obj][l_ref][v]]_vars

C6_Witness ==
    /\ pc = "loop"
    /\ Len(log) = 1
    /\ \E v \in SharedVerts(obj, log[1].ref, log[1].tgt) :
        /\ uv[obj][log[1].tgt][v] = uv[obj][log[1].ref][v]
        /\ uv[obj][log[1].tgt][v] # uv0[obj][log[1].tgt][v]

\* C7: step k of a Set takes as target the k-th face of sel_faces and as
\* reference the target of step k-1 (props.ref_face_index for k = 1); the
\* reference's UVs it reads are those step k-1 wrote, it writes the target
\* face only, and the shared vertices get the UVs step k-1 wrote.
C7_ChainFollowsSelection ==
    [][(pc = "loop" /\ idx <= Len(sel_faces)) =>
        /\ l_ref = (IF idx = 1 THEN ref_face_index ELSE sel_faces[idx - 1])
        /\ Len(log) = idx - 1
        /\ idx > 1 => (/\ log[idx - 1].tgt = l_ref
                       /\ uv[obj][l_ref] = log[idx - 1].uvf)
        /\ pc' = "loop" =>
            /\ log'[idx].tgt = sel_faces[idx]
            /\ log'[idx].ref = l_ref
            /\ uv' = [uv EXCEPT ![obj][sel_faces[idx]] = log'[idx].uvf]
            /\ \A v \in SharedVerts(obj, l_ref, sel_faces[idx]) :
                uv'[obj][sel_faces[idx]][v] =
                    IF idx > 1 THEN log[idx - 1].uvf[v]
                    ELSE uv0[obj][l_ref][v]]_vars

C7_Witness ==
    /\ pc = "loop"
    /\ selseq = "on"
    /\ Len(log) = 2
    /\ log[1].tgt > log[2].tgt
    /\ log[2].ref = log[1].tgt
    /\ uv[obj][log[2].tgt] # uv0[obj][log[2].tgt]

\* C8: when step k of a Set fails, the faces of steps 1..k-1 keep the UVs those
\* steps wrote, and every other face, those at positions k and later included,
\* has the UVs it had when Set was invoked.
C8_NoRollback ==
    [][(pc = "loop" /\ pc' = "idle" /\ result' # "FINISHED") =>
        /\ Len(log) = idx - 1
        /\ \A j \in 1..(idx - 1) : uv'[obj][sel_faces[j]] = log[j].uvf
        /\ \A j \in idx..Len(sel_faces) :
            uv'[obj][sel_faces[j]] = uv0[obj][sel_faces[j]]
        /\ \A o \in DOMAIN uv : \A f \in DOMAIN uv[o] :
            (o # obj \/ \A j \in 1..(idx - 1) : sel_faces[j] # f)
                => uv'[o][f] = uv0[o][f]]_vars

C8_Witness ==
    /\ lastop = "set"
    /\ selseq = "on"
    /\ result = "CANCELLED"
    /\ report = MsgShared
    /\ nsteps = 1

\* the lengths of hdiff and vdiff are zero for the ordering (a, b) of the
\* shared edge and the off-edge vertex o, over the integers
ISub(p, q) == <<p[1] - q[1], p[2] - q[2], p[3] - q[3]>>
IDot(p, q) == p[1] * q[1] + p[2] * q[2] + p[3] * q[3]
ICross(p, q) == <<p[2] * q[3] - p[3] * q[2], p[3] * q[1] - p[1] * q[3],
                  p[1] * q[2] - p[2] * q[1]>>
HDiffIsZero(a, b, o) ==
    IF a = b THEN o = a ELSE ICross(ISub(b, a), ISub(o, a)) = <<0, 0, 0>>
VDiffIsZero(a, b, o) == IDot(ISub(b, a), ISub(o, a)) = 0
ZeroDelta(a, b, o) == HDiffIsZero(a, b, o) \/ VDiffIsZero(a, b, o)

\* C9: when the ordering (A, B) gives a zero-length hdiff or vdiff, A and B
\* (and Auv and Buv) are swapped, otherwise they are kept; and when one of the
\* two orderings gives both non-zero, the divisors of fact_v and fact_h are
\* non-zero.
C9_SwapAvoidsZeroDivisor ==
    gOut # <<>> =>
        /\ gOut.swapped <=> ZeroDelta(gA, gB, gO)
        /\ gOut.swapped =>
            /\ gOut.cv0 = IntVec(gB) /\ gOut.cv1 = IntVec(gA)
            /\ gOut.cuv0 = GeomUVB /\ gOut.cuv1 = GeomUVA
        /\ ~gOut.swapped =>
            /\ gOut.cv0 = IntVec(gA) /\ gOut.cv1 = IntVec(gB)
            /\ gOut.cuv0 = GeomUVA /\ gOut.cuv1 = GeomUVB
        /\ (~ZeroDelta(gA, gB, gO) \/ ~ZeroDelta(gB, gA, gO))
            => (/\ ~LengthIsZero(gOut.ref_vdiff)
                /\ ~LengthIsZero(gOut.ref_hdiff)
                /\ ~DivisionByZero(gOut))

C9_Witness ==
    /\ gOut # <<>>
    /\ VDiffIsZero(gA, gB, gO)
    /\ ~HDiffIsZero(gA, gB, gO)
    /\ gOut.swapped
    /\ ~DivisionByZero(gOut)

\* C10: while props.ref_obj is unset, props.ref_face_index is -1, and no step
\* of Set writes a UV or sets the reference; Set returns CANCELLED.
C10_UnsetReferenceCancels ==
    [][ref_obj = None =>
        /\ ref_face_index = -1
        /\ lastop' = "set" =>
            /\ uv' = uv
            /\ ref_face_index' = -1
            /\ ref_obj' = None
            /\ pc' = "idle" => result' = "CANCELLED"]_vars

C10_Witness ==
    /\ lastop = "set"
    /\ ref_obj = None
    /\ ref_face_index = -1
    /\ selseq = "on"
    /\ result = "CANCELLED"
    /\ report = MsgSameObj

====
